---- MODULE Spec2Model ----
(***************************************************************************)
(* Model of etl-avalanche (src/task.ts): Task.control and the helpers it   *)
(* calls (getRegionInfo, getForecastData, getDangerLevelText, parseDate).  *)
(*                                                                         *)
(* JavaScript values are modelled as records tagged with a `kind` (or, for *)
(* date strings, a `fmt`) field, so that null, undefined and objects can   *)
(* be told apart.  A date string is [fmt, ms]: its textual form and the    *)
(* instant it denotes; Date parsing and toISOString work on that pair.     *)
(***************************************************************************)
EXTENDS Integers, Sequences, FiniteSets, TLC

\* ------------------------------------------------------------------ bounds
\* number of catalog entries a run iterates over (a prefix of VALID_REGIONS)
MaxRegions == 2
\* longest altitudeDanger array drawn as an input
MaxBands == 2

\* --------------------------------------------------------------- constants
VALID_REGIONS == <<1, 2, 4, 5, 6, 7, 8, 9, 10, 11, 12, 13, 15>>

Catalog == SubSeq(VALID_REGIONS, 1, MaxRegions)

AVALANCHE_ICONS ==
  [l \in 0..5 |->
     CASE l = 0 -> "NH.41B.Avalanche.DangerLevel0.Label.png"
       [] l = 1 -> "NH.42B.Avalanche.DangerLevel1.Label.png"
       [] l = 2 -> "NH.43B.Avalanche.DangerLevel2.Label.png"
       [] l = 3 -> "NH.44B.Avalanche.DangerLevel3.Label.png"
       [] l = 4 -> "NH.45B.Avalanche.DangerLevel4and5.Label.png"
       [] l = 5 -> "NH.45B.Avalanche.DangerLevel4and5.Label.png"]

AVALANCHE_COLORS ==
  [l \in 0..5 |->
     CASE l = 5 -> "rgb(0, 0, 0)"
       [] l = 4 -> "rgb(239, 43, 47)"
       [] l = 3 -> "rgb(248, 151, 44)"
       [] l = 2 -> "rgb(255, 244, 31)"
       [] l = 1 -> "rgb(84, 187, 81)"
       [] l = 0 -> "rgb(128, 128, 128)"]

\* ------------------------------------------------------- JavaScript values
Null == [kind |-> "null"]
Undefined == [kind |-> "undefined"]
\* the value of a string-typed slot that holds undefined
UndefinedStr == "undefined"

\* Date objects: an invalid Date has a NaN time value
InvalidDate == [valid |-> FALSE, time |-> 0]

\* new Date(dateStr): ISO forms (with or without milliseconds) parse to their
\* instant, null converts to 0, everything else (undefined, free text such as
\* "Monday 1st September 2025, 15:18") gives an invalid Date
NewDate(dateStr) ==
  CASE dateStr.fmt = "iso" -> [valid |-> TRUE, time |-> dateStr.ms]
    [] dateStr.fmt = "isoShort" -> [valid |-> TRUE, time |-> dateStr.ms]
    [] dateStr.fmt = "null" -> [valid |-> TRUE, time |-> 0]
    [] OTHER -> InvalidDate

\* the absence of an error
NoError == [at |-> "none", id |-> 0]

\* what a throwing expression evaluates to
Thrown == [kind |-> "thrown"]

\* variant: an invalid Date is rendered as text instead of throwing
ToISOStringLenient(date) ==
  IF date.valid THEN [fmt |-> "iso", ms |-> date.time] ELSE [fmt |-> "garbage"]

\* Date.prototype.toISOString: the canonical form; throws RangeError on an
\* invalid Date
ToISOString(date) ==
  IF date.valid THEN [fmt |-> "iso", ms |-> date.time] ELSE Thrown

\* JavaScript truthiness of a value held in a string slot
Truthy(s) ==
  IF "fmt" \in DOMAIN s THEN s.fmt \notin {"undefined", "null", "empty"}
  ELSE IF s.kind = "string" THEN s.segs # <<>>
  ELSE s.kind \notin {"undefined", "null"}

\* ------------------------------------------------------ getDangerLevelText
getDangerLevelText(rating) ==
  CASE rating = -2 -> "Insufficient Snow"
    [] rating = 0 -> "No Rating"
    [] rating = 1 -> "Low (1)"
    [] rating = 2 -> "Moderate (2)"
    [] rating = 3 -> "Considerable (3)"
    [] rating = 4 -> "High (4)"
    [] rating = 5 -> "Extreme (5)"
    [] OTHER -> "Level " \o ToString(rating)

\* ---------------------------------------------------------------- parseDate
\* now: the clock reading a `new Date()` fallback would return
parseDate(dateStr, now) ==
  LET date == NewDate(dateStr) IN
  IF date.valid THEN ToISOString(date)
  ELSE IF dateStr.fmt \in {"undefined", "null"}
       THEN [fmt |-> "iso", ms |-> now]          \* dateStr.match throws
  ELSE IF dateStr.fmt = "nz" /\ dateStr.monthKnown
       THEN [fmt |-> "iso", ms |-> dateStr.ms]   \* local-time constructor
  ELSE [fmt |-> "iso", ms |-> now]

\* --------------------------------------------------------- getForecastData
\* for (const altitude of forecast.altitudeDanger): the state of the scan is
\* the pair (maxRating, ratingDescription)
RECURSIVE ScanBands(_, _, _)
ScanBands(bands, i, acc) ==
  IF i > Len(bands) THEN acc
  ELSE LET altitude == bands[i] IN
       IF altitude.rating > acc.maxRating /\ altitude.rating > 0
       THEN ScanBands(bands, i + 1,
                      [maxRating |-> altitude.rating,
                       ratingDescription |-> altitude.description])
       ELSE ScanBands(bands, i + 1, acc)

\* forecast.altitudeDanger?.find(a => a.rating === -2)
FindInsufficientSnow(altitudeDanger) ==
  IF altitudeDanger.kind # "array" THEN Undefined
  ELSE LET hits == {i \in 1..Len(altitudeDanger.items) :
                      altitudeDanger.items[i].rating = -2} IN
       IF hits = {} THEN Undefined
       ELSE altitudeDanger.items[CHOOSE i \in hits : \A j \in hits : i <= j]

\* variant: the insufficient-snow case sets the rating to -2
RatingOfInsufficient(forecast) ==
  LET scanned ==
        IF forecast.altitudeDanger.kind = "array"
           /\ Len(forecast.altitudeDanger.items) > 0
        THEN ScanBands(forecast.altitudeDanger.items, 1,
                       [maxRating |-> 0,
                        ratingDescription |-> "No rating available"])
        ELSE [maxRating |-> 0, ratingDescription |-> "No rating available"]
      insufficientSnow == FindInsufficientSnow(forecast.altitudeDanger)
  IN IF scanned.maxRating = 0 /\ insufficientSnow # Undefined
     THEN [maxRating |-> -2, ratingDescription |-> insufficientSnow.description]
     ELSE scanned

\* lines 158-178: maxRating and ratingDescription of the entry
RatingOf(forecast) ==
  LET scanned ==
        IF forecast.altitudeDanger.kind = "array"
           /\ Len(forecast.altitudeDanger.items) > 0
        THEN ScanBands(forecast.altitudeDanger.items, 1,
                       [maxRating |-> 0,
                        ratingDescription |-> "No rating available"])
        ELSE [maxRating |-> 0, ratingDescription |-> "No rating available"]
      insufficientSnow == FindInsufficientSnow(forecast.altitudeDanger)
  IN IF scanned.maxRating = 0 /\ insufficientSnow # Undefined
     THEN [maxRating |-> 0, ratingDescription |-> insufficientSnow.description]
     ELSE scanned

RECURSIVE JoinText(_)
JoinText(segs) ==
  IF segs = <<>> THEN "" ELSE Head(segs).text \o JoinText(Tail(segs))

RECURSIVE TrimLeft(_)
TrimLeft(segs) ==
  IF segs # <<>> /\ Head(segs).space THEN TrimLeft(Tail(segs)) ELSE segs

RECURSIVE TrimRight(_)
TrimRight(segs) ==
  IF segs # <<>> /\ segs[Len(segs)].space
  THEN TrimRight(SubSeq(segs, 1, Len(segs) - 1)) ELSE segs

\* importantInformation.replace(/<[^>]*>/g, '').trim(); a string is a sequence
\* of segments, each a markup tag, a run of whitespace, or text
StripTags(info) ==
  JoinText(TrimRight(TrimLeft(SelectSeq(info.segs, LAMBDA s : ~s.tag))))

\* variant: the comparison ignores case
ValidHoursLoose(validPeriod) ==
  IF validPeriod \in {"48hrs", "48HRS"} THEN 48 ELSE 24

\* line 182
ValidHours(validPeriod) == IF validPeriod = "48hrs" THEN 48 ELSE 24

MaxOf(a, b) == IF a >= b THEN a ELSE b

\* lines 156-198: the record built from the authoritative forecast entry
Normalize(regionId, forecast) ==
  LET r == RatingOf(forecast)
      created == NewDate(forecast.created)
      validHours == ValidHours(forecast.validPeriod)
      expires == IF created.valid
                 THEN [valid |-> TRUE,
                       time |-> created.time + validHours * 60 * 60 * 1000]
                 ELSE InvalidDate
      description == IF Truthy(forecast.importantInformation)
                     THEN StripTags(forecast.importantInformation)
                     ELSE r.ratingDescription
  IN IF ToISOString(expires) = Thrown THEN Null       \* RangeError, caught
     ELSE IF forecast.importantInformation.kind = "number"
          THEN Null                                  \* .replace is not a function
     ELSE
          [kind |-> "object",
           location |-> "Region " \o ToString(regionId),
           level |-> MaxOf(0, r.maxRating),
           levelText |-> getDangerLevelText(r.maxRating),
           description |-> description,
           start |-> forecast.created,
           expires |-> ToISOString(expires),
           url |-> "https://www.avalanche.net.nz/region/" \o ToString(regionId)]

\* resp: the outcome of the request to /api/forecast
getForecastData(regionId, resp) ==
  IF resp.kind = "throw" THEN Null                 \* network error or abort
  ELSE IF ~resp.ok THEN Null
  ELSE IF resp.body.kind # "object" THEN Null      \* json() rejects, or null
  ELSE IF resp.body.forecasts.kind # "array" THEN Null
  ELSE IF Len(resp.body.forecasts.items) = 0 THEN Null
  ELSE LET items == resp.body.forecasts.items IN
       IF \E i \in 1..Len(items) : items[i].kind # "object"
       THEN Null                                   \* f.regionId throws
       ELSE LET regionForecasts ==
                  SelectSeq(items, LAMBDA f : f.regionId = regionId) IN
            IF Len(regionForecasts) = 0 THEN Null
            ELSE Normalize(regionId, regionForecasts[1])

\* ----------------------------------------------------------- getRegionInfo
\* resp: the outcome of the request to /api/region/<regionId>
getRegionInfo(regionId, resp) ==
  IF resp.kind = "throw" THEN Null                 \* network error or abort
  ELSE IF ~resp.ok THEN Null
  ELSE IF resp.body.kind # "object" THEN Null      \* json() rejects, or null
  ELSE [kind |-> "object",
        id |-> resp.body.id,
        title |-> resp.body.title,
        latitude |-> resp.body.latitude,
        longitude |-> resp.body.longitude,
        geometry |-> resp.body.geometry]

\* ------------------------------------------------------ geometry extraction
\* variant: the geometry type is not checked
ExtractPolygonAnyType(geometry) ==
  IF geometry.kind # "string" THEN Null
  ELSE IF geometry.json.kind = "invalid" THEN Null
  ELSE IF geometry.json.kind = "null" THEN Null
  ELSE LET geometryData == geometry.json IN
       IF geometryData.layers.kind = "array"
          /\ Len(geometryData.layers.items) > 0
          /\ geometryData.layers.items[1].kind = "object"
          /\ Truthy(geometryData.layers.items[1].geometry)
       THEN LET geom == geometryData.layers.items[1].geometry IN
            IF Truthy(geom.coordinates) THEN geom.coordinates ELSE Null
       ELSE Null

\* lines 269-280: JSON.parse of the geometry string and the shape checks; a
\* geometry string is modelled by the document it parses to
ExtractPolygon(geometry) ==
  IF geometry.kind # "string" THEN Null            \* JSON.parse(undefined)
  ELSE IF geometry.json.kind = "invalid" THEN Null \* SyntaxError, caught
  ELSE IF geometry.json.kind = "null" THEN Null    \* TypeError, caught
  ELSE LET geometryData == geometry.json IN
       IF geometryData.layers.kind = "array"
          /\ Len(geometryData.layers.items) > 0
          /\ geometryData.layers.items[1].kind = "object"
          /\ Truthy(geometryData.layers.items[1].geometry)
       THEN LET geom == geometryData.layers.items[1].geometry IN
            IF geom.type = "Polygon" /\ Truthy(geom.coordinates)
            THEN geom.coordinates
            ELSE Null
       ELSE Null

\* -------------------------------------------------------- feature assembly
\* variant: no fallback to the level-0 entry
LookupNoFallback(table, level) ==
  IF level \in DOMAIN table THEN table[level] ELSE UndefinedStr

\* TABLE[data.level] || TABLE[0]
Lookup(table, level) ==
  LET hit == IF level \in DOMAIN table THEN table[level] ELSE UndefinedStr IN
  IF hit # UndefinedStr /\ hit # "" THEN hit ELSE table[0]

PolygonId(regionId) == "avalanche-" \o ToString(regionId)

\* variant: the Point feature reuses the id of the Polygon feature
PointIdClash(regionId) == "avalanche-" \o ToString(regionId)

PointId(regionId) == "avalanche-" \o ToString(regionId) \o "-center"

\* lines 265-339: the features one resolved region contributes; now1 and now2
\* are the clock readings of the two parseDate calls
RegionFeatures(regionId, regionInfo, data, now1, now2) ==
  LET startTime == parseDate(data.start, now1)
      expiresTime == IF Truthy(data.expires)
                     THEN parseDate(data.expires, now2)
                     ELSE [fmt |-> "undefined"]
      polygonCoordinates == ExtractPolygon(regionInfo.geometry)
      color == Lookup(AVALANCHE_COLORS, data.level)
      callsign == "Avalanche Risk: " \o regionInfo.title \o " - "
                    \o data.levelText
      polygon == [id |-> PolygonId(regionId),
                  type |-> "Feature",
                  properties |-> [callsign |-> callsign,
                                  type |-> "a-o-X-i-g-h",
                                  time |-> startTime,
                                  start |-> startTime,
                                  stale |-> expiresTime,
                                  stroke |-> color,
                                  fill |-> color],
                  geometry |-> [type |-> "Polygon",
                                coordinates |-> polygonCoordinates]]
      point == [id |-> PointId(regionId),
                type |-> "Feature",
                properties |-> [callsign |-> callsign,
                                type |-> "a-o-X-i-g-h",
                                time |-> startTime,
                                start |-> startTime,
                                stale |-> expiresTime,
                                icon |-> Lookup(AVALANCHE_ICONS, data.level)],
                geometry |-> [type |-> "Point",
                              coordinates |-> <<regionInfo.latitude,
                                                regionInfo.longitude>>]]
  IN IF polygonCoordinates # Null THEN <<polygon, point>> ELSE <<point>>

\* variant: a skipped region empties the array
NextFeaturesReset(feats, regionId, regionInfo, data, now1, now2) ==
  IF data = Null \/ regionInfo = Null
  THEN <<>>
  ELSE feats \o RegionFeatures(regionId, regionInfo, data, now1, now2)

\* lines 260-339: the features array after one iteration of the loop
NextFeatures(feats, regionId, regionInfo, data, now1, now2) ==
  IF data = Null \/ regionInfo = Null
  THEN feats                                        \* continue
  ELSE feats \o RegionFeatures(regionId, regionInfo, data, now1, now2)

\* lines 257-258: the requests one iteration sends, in order
RegionInfoUrl(regionId) == [endpoint |-> "/api/region", id |-> regionId]

ForecastUrl == [endpoint |-> "/api/forecast", id |-> 0]

\* variant: the forecast list is requested for the first region only
RequestsOfCached(regionId) ==
  IF regionId = VALID_REGIONS[1]
  THEN <<RegionInfoUrl(regionId), ForecastUrl>>
  ELSE <<RegionInfoUrl(regionId)>>

RequestsOf(regionId) == <<RegionInfoUrl(regionId), ForecastUrl>>

\* variant: the catch block logs and swallows the error
CatchHandlerSwallow(error) == NoError

\* lines 354-357: the catch block of control() re-throws what it caught
CatchHandler(error) == error

\* ------------------------------------------------------------------ inputs
\* instants (epoch milliseconds) a `created` field denotes
Instants == {0, 1, 86400000}

\* clock readings of the run
NowValues == {5, 7}

CreatedInputs ==
  [fmt : {"iso", "isoShort"}, ms : Instants]
    \cup {[fmt |-> "nz", ms |-> 3, monthKnown |-> TRUE],
          [fmt |-> "garbage"], [fmt |-> "undefined"], [fmt |-> "null"]}

ValidPeriodInputs == {"24hrs", "48hrs", "48HRS", UndefinedStr}

\* ratings of the bands of a drawn altitudeDanger array (6 is off the scale)
Ratings == {-2, 0, 1, 2, 3, 6}

\* ratings of the single band of a forecast drawn during a run
ControlRatings == {-2, 0, 1, 2, 3, 4, 5, 6}

\* band i of an array carries a description that names its position
BandDescription(i) == "band " \o ToString(i)

BandArrays ==
  UNION {{[i \in 1..n |-> [rating |-> rs[i], description |-> BandDescription(i)]] :
            rs \in [1..n -> Ratings]} : n \in 0..MaxBands}

AltitudeDangerInputs ==
  {Undefined} \cup {[kind |-> "array", items |-> b] : b \in BandArrays}

Seg(text, tag, space) == [text |-> text, tag |-> tag, space |-> space]

\* the string " <p>Wind slab</p> "
InfoHtml ==
  [kind |-> "string",
   segs |-> <<Seg(" ", FALSE, TRUE), Seg("<p>", TRUE, FALSE),
              Seg("Wind slab", FALSE, FALSE), Seg("</p>", TRUE, FALSE),
              Seg(" ", FALSE, TRUE)>>]

InfoInputs == {Undefined, [kind |-> "string", segs |-> <<>>], InfoHtml}

Forecast(rid, bands, created, validPeriod, info) ==
  [kind |-> "object", regionId |-> rid, altitudeDanger |-> bands,
   created |-> created, validPeriod |-> validPeriod,
   importantInformation |-> info]

OkResponse(body) == [kind |-> "http", ok |-> TRUE, body |-> body]

ForecastList(items) ==
  OkResponse([kind |-> "object",
              forecasts |-> [kind |-> "array", items |-> items]])

FailedResponses ==
  {[kind |-> "throw"],
   [kind |-> "http", ok |-> FALSE, body |-> Null],
   OkResponse([kind |-> "badjson"]),
   OkResponse(Null)}

\* forecast responses that carry no usable list
EmptyForecastResponses ==
  FailedResponses
    \cup {OkResponse([kind |-> "object", forecasts |-> Undefined]),
          ForecastList(<<>>)}

\* one band of the given rating
OneBand(rating) ==
  [kind |-> "array",
   items |-> <<[rating |-> rating, description |-> BandDescription(1)]>>]

\* entries placed next to the entry under test
OtherForecasts ==
  {Forecast(Catalog[1], OneBand(4), [fmt |-> "iso", ms |-> 1], "48hrs",
            Undefined),
   Forecast(Catalog[2], OneBand(2), [fmt |-> "iso", ms |-> 0], "24hrs",
            Undefined)}

\* inputs of the normalizer, for the first catalog region: every band array
\* with every importantInformation, and every created with every validPeriod
NormalizerEntries ==
  {Forecast(Catalog[1], b, [fmt |-> "isoShort", ms |-> 1], "24hrs", i) :
     b \in AltitudeDangerInputs, i \in InfoInputs}
    \cup {Forecast(Catalog[1], OneBand(3), c, v, Undefined) :
            c \in CreatedInputs, v \in ValidPeriodInputs}

NormalizerResponses ==
  EmptyForecastResponses
    \cup {ForecastList(<<Null, o>>) : o \in OtherForecasts}
    \cup {ForecastList(<<e>>) : e \in NormalizerEntries}
    \cup {ForecastList(<<o, e>>) : o \in OtherForecasts, e \in NormalizerEntries}
    \cup {ForecastList(<<e, o>>) : o \in OtherForecasts, e \in NormalizerEntries}

\* inputs of a run: a list of one entry, for the region asked for or for the
\* last region of VALID_REGIONS
ControlEntries(rid) ==
  {Forecast(rid, OneBand(k), [fmt |-> "iso", ms |-> 0], "24hrs", Undefined) :
     k \in ControlRatings}
    \cup {Forecast(rid, OneBand(3), c, "48hrs", Undefined) :
            c \in {[fmt |-> "isoShort", ms |-> 1], [fmt |-> "garbage"],
                   [fmt |-> "nz", ms |-> 3, monthKnown |-> TRUE]}}
    \cup {Forecast(VALID_REGIONS[Len(VALID_REGIONS)], OneBand(3),
                   [fmt |-> "iso", ms |-> 0], "24hrs", Undefined)}

ControlForecastResponses(rid) ==
  EmptyForecastResponses \cup {ForecastList(<<e>>) : e \in ControlEntries(rid)}

Ring == <<<<0, 0>>, <<1, 0>>, <<1, 1>>, <<0, 0>>>>

Coordinates == [kind |-> "array", rings |-> <<Ring>>]

Geom(type, coordinates) ==
  [kind |-> "object", type |-> type, coordinates |-> coordinates]

Layers(items) ==
  [kind |-> "string",
   json |-> [kind |-> "object", layers |-> [kind |-> "array", items |-> items]]]

Layer(geometry) == [kind |-> "object", geometry |-> geometry]

GeometryInputs ==
  {Undefined,
   [kind |-> "string", json |-> [kind |-> "invalid"]],
   [kind |-> "string", json |-> [kind |-> "object", layers |-> Undefined]],
   Layers(<<>>),
   Layers(<<Layer(Geom("Point", Coordinates))>>),
   Layers(<<Layer(Geom("polygon", Coordinates))>>),
   Layers(<<Layer(Geom("Polygon", Undefined))>>),
   Layers(<<Layer(Geom("Polygon", Coordinates))>>)}

RegionInfoResponses(rid) ==
  FailedResponses
    \cup {OkResponse([kind |-> "object", id |-> rid,
                      title |-> "Region " \o ToString(rid),
                      latitude |-> -43, longitude |-> 170,
                      geometry |-> g]) : g \in GeometryInputs}

\* errors the configuration read or the submission can raise
Errors == {[at |-> "env", id |-> 1], [at |-> "env", id |-> 2],
           [at |-> "submit", id |-> 1]}

NoResponse == [kind |-> "none"]

NotSubmitted == [type |-> "none", features |-> <<>>]

\* ------------------------------------------------------------------- state
VARIABLES
  pc,              \* position of control(): start, loop, submit, done, failed
  idx,             \* index in the catalog of the next region of the loop
  features,        \* the features array
  requests,        \* the requests sent so far, in order
  noDataWarnings,  \* number of "No data for region" warnings logged
  regionId,        \* region of the last getRegionInfo / getForecastData call
  riResp,          \* the last response of the region endpoint
  regionInfo,      \* result of the last getRegionInfo call
  fcResp,          \* the last response of the forecast endpoint
  data,            \* result of the last getForecastData call
  submitCalls,     \* number of calls of submit
  submitted,       \* the collection handed to submit
  raised,          \* the error raised inside the try block
  thrown           \* the error control() threw to its caller

vars == <<pc, idx, features, requests, noDataWarnings, regionId, riResp,
          regionInfo,
          fcResp, data, submitCalls, submitted, raised, thrown>>

Init ==
  /\ pc = "start"
  /\ idx = 1
  /\ features = <<>>
  /\ requests = <<>>
  /\ noDataWarnings = 0
  /\ regionId = 0
  /\ riResp = NoResponse
  /\ regionInfo = Null
  /\ fcResp = NoResponse
  /\ data = Null
  /\ submitCalls = 0
  /\ submitted = NotSubmitted
  /\ raised = NoError
  /\ thrown = NoError

\* line 251: await this.env(Env) resolves
EnvOk ==
  /\ pc = "start"
  /\ pc' = "loop"
  /\ UNCHANGED <<idx, features, requests, noDataWarnings, regionId, riResp,
                 regionInfo,
                 fcResp, data, submitCalls, submitted, raised, thrown>>

\* line 251: await this.env(Env) rejects; lines 354-357 re-throw
EnvFails ==
  /\ pc = "start"
  /\ \E e \in {x \in Errors : x.at = "env"} :
       /\ raised' = e
       /\ thrown' = CatchHandler(e)
       /\ pc' = IF CatchHandler(e) = NoError THEN "done" ELSE "failed"
  /\ UNCHANGED <<idx, features, requests, noDataWarnings, regionId, riResp,
                 regionInfo,
                 fcResp, data, submitCalls, submitted>>

\* lines 256-342: one iteration of the loop over VALID_REGIONS
ProcessRegion ==
  /\ pc = "loop"
  /\ idx <= Len(Catalog)
  /\ \E infoResp \in RegionInfoResponses(Catalog[idx]),
        resp \in ControlForecastResponses(Catalog[idx]),
        now1 \in NowValues, now2 \in NowValues :
       /\ now1 <= now2
       /\ regionId' = Catalog[idx]
       /\ requests' = requests \o RequestsOf(Catalog[idx])
       /\ riResp' = infoResp
       /\ regionInfo' = getRegionInfo(Catalog[idx], infoResp)
       /\ fcResp' = resp
       /\ data' = getForecastData(Catalog[idx], resp)
       /\ features' = NextFeatures(features, Catalog[idx], regionInfo', data',
                                   now1, now2)
       /\ noDataWarnings' = IF data' = Null \/ regionInfo' = Null
                            THEN noDataWarnings + 1 ELSE noDataWarnings
  /\ idx' = idx + 1
  /\ UNCHANGED <<pc, submitCalls, submitted, raised, thrown>>

\* variant: an empty collection is not submitted
SubmitSkipEmpty ==
  /\ pc = "loop"
  /\ idx > Len(Catalog)
  /\ submitCalls' = IF features = <<>> THEN submitCalls ELSE submitCalls + 1
  /\ submitted' = IF features = <<>> THEN submitted
                  ELSE [type |-> "FeatureCollection", features |-> features]
  /\ pc' = IF features = <<>> THEN "done" ELSE "submit"
  /\ UNCHANGED <<idx, features, requests, noDataWarnings, regionId, riResp,
                 regionInfo,
                 fcResp, data, raised, thrown>>

\* lines 344-351: the loop is over, submit(fc) is called
Submit ==
  /\ pc = "loop"
  /\ idx > Len(Catalog)
  /\ submitCalls' = submitCalls + 1
  /\ submitted' = [type |-> "FeatureCollection", features |-> features]
  /\ pc' = "submit"
  /\ UNCHANGED <<idx, features, requests, noDataWarnings, regionId, riResp,
                 regionInfo,
                 fcResp, data, raised, thrown>>

\* lines 351-352: submit resolves and control() returns
SubmitOk ==
  /\ pc = "submit"
  /\ pc' = "done"
  /\ UNCHANGED <<idx, features, requests, noDataWarnings, regionId, riResp,
                 regionInfo,
                 fcResp, data, submitCalls, submitted, raised, thrown>>

\* line 351: submit rejects; lines 354-357 re-throw
SubmitFails ==
  /\ pc = "submit"
  /\ \E e \in {x \in Errors : x.at = "submit"} :
       /\ raised' = e
       /\ thrown' = CatchHandler(e)
       /\ pc' = IF CatchHandler(e) = NoError THEN "done" ELSE "failed"
  /\ UNCHANGED <<idx, features, requests, noDataWarnings, regionId, riResp,
                 regionInfo,
                 fcResp, data, submitCalls, submitted>>

Next == EnvOk \/ EnvFails \/ ProcessRegion \/ Submit \/ SubmitOk \/ SubmitFails

Spec == Init /\ [][Next]_vars

\* ---------------------------------------------- the normalizer on its own
\* a call getForecastData(regionId, timeout) whose response has arrived
InitForecast ==
  /\ pc = "forecast"
  /\ idx = 1
  /\ features = <<>>
  /\ requests = <<ForecastUrl>>
  /\ noDataWarnings = 0
  /\ regionId \in {Catalog[1], Catalog[2]}
  /\ riResp = NoResponse
  /\ regionInfo = Null
  /\ fcResp \in NormalizerResponses
  /\ data = Null
  /\ submitCalls = 0
  /\ submitted = NotSubmitted
  /\ raised = NoError
  /\ thrown = NoError

\* lines 128-203: the response is handled and the call returns
ForecastReturns ==
  /\ pc = "forecast"
  /\ data' = getForecastData(regionId, fcResp)
  /\ pc' = "returned"
  /\ UNCHANGED <<idx, features, requests, noDataWarnings, regionId, riResp,
                 regionInfo,
                 fcResp, submitCalls, submitted, raised, thrown>>

NextForecast == ForecastReturns

SpecForecast == InitForecast /\ [][NextForecast]_vars

\* ================================================================= claims
\* the first entry, in list order, of a forecast response whose regionId is rid
FirstMatch(resp, rid) ==
  IF resp.kind = "http" /\ resp.ok /\ resp.body.kind = "object"
     /\ resp.body.forecasts.kind = "array"
  THEN LET items == resp.body.forecasts.items
           hits == {i \in 1..Len(items) :
                      items[i].kind = "object" /\ items[i].regionId = rid}
       IN IF hits = {} THEN Null
          ELSE items[CHOOSE i \in hits : \A j \in hits : i <= j]
  ELSE Null

\* number of regions of this run for which both fetches resolved
Resolved == (idx - 1) - noDataWarnings

\* C1: a run whose configuration read succeeded calls submit exactly once,
\* after every region of the catalog was processed, with the accumulated
\* collection; when every region was skipped the collection is empty.
SubmitExactlyOnce ==
  /\ submitCalls <= 1
  /\ pc \in {"submit", "done"} => submitCalls = 1
  /\ (pc = "failed" /\ raised.at # "env") => submitCalls = 1
  /\ submitCalls = 1 =>
       /\ idx = Len(Catalog) + 1
       /\ Len(requests) = 2 * Len(Catalog)
       /\ submitted = [type |-> "FeatureCollection", features |-> features]
       /\ noDataWarnings = Len(Catalog) => submitted.features = <<>>
  /\ submitCalls = 0 => submitted = NotSubmitted

SubmitExactlyOnceWitness ==
  /\ pc = "done"
  /\ submitCalls = 1
  /\ noDataWarnings = Len(Catalog)
  /\ submitted = [type |-> "FeatureCollection", features |-> <<>>]
  /\ fcResp.kind = "http" /\ fcResp.ok /\ fcResp.body.kind = "object"
  /\ fcResp.body.forecasts = [kind |-> "array", items |-> <<>>]

\* C2: a region for which both fetches resolved has exactly one Point feature
\* with id avalanche-<r>-center and a Polygon feature with id avalanche-<r>
\* exactly when coordinates were extracted, and nothing else; ids are unique.
OneFeaturePairPerRegion ==
  LET n == Len(features)
      done == {Catalog[i] : i \in 1..(idx - 1)}
      centerId(r) == "avalanche-" \o ToString(r) \o "-center"
      areaId(r) == "avalanche-" \o ToString(r)
      points == {i \in 1..n : features[i].geometry.type = "Point"}
      polygons == {i \in 1..n : features[i].geometry.type = "Polygon"}
  IN /\ \A i, j \in 1..n : i # j => features[i].id # features[j].id
     /\ points \cup polygons = 1..n
     /\ \A i \in points : \E r \in done : features[i].id = centerId(r)
     /\ \A i \in polygons : \E r \in done : features[i].id = areaId(r)
     /\ pc # "forecast" => Cardinality(points) = Resolved
     /\ (idx > 1 /\ regionInfo # Null /\ data # Null) =>
          /\ Cardinality({i \in points :
                            features[i].id = centerId(regionId)}) = 1
          /\ Cardinality({i \in polygons :
                            features[i].id = areaId(regionId)})
               = IF ExtractPolygon(regionInfo.geometry) # Null THEN 1 ELSE 0
     /\ (idx > 1 /\ (regionInfo = Null \/ data = Null)) =>
          \A i \in 1..n :
            features[i].id \notin {centerId(regionId), areaId(regionId)}

OneFeaturePairPerRegionWitness ==
  /\ submitCalls = 1
  /\ Len(submitted.features) = 3
  /\ submitted.features[1].geometry.type = "Polygon"
  /\ submitted.features[2].geometry.type = "Point"
  /\ submitted.features[3].geometry.type = "Point"

\* C3: an iteration whose region-info fetch failed or whose forecast resolved
\* to no data adds no feature and moves to the next region; every iteration
\* leaves the features of earlier regions in place and appends exactly the
\* features of its own region.
FailedRegionIsSkipped ==
  [][(pc = "loop" /\ idx' = idx + 1) =>
       LET infoFailed == \/ riResp'.kind = "throw"
                         \/ ~riResp'.ok
                         \/ riResp'.body.kind \in {"badjson", "null"}
           k == Len(features)
       IN /\ pc' = "loop"
          /\ Len(features') >= k
          /\ SubSeq(features', 1, k) = features
          /\ (infoFailed \/ data' = Null) => features' = features
          /\ ~(infoFailed \/ data' = Null) =>
               SubSeq(features', k + 1, Len(features'))
                 = RegionFeatures(Catalog[idx], regionInfo', data', 0, 0)]_vars

FailedRegionIsSkippedWitness ==
  /\ idx > Len(Catalog)
  /\ riResp.kind = "throw"
  /\ data # Null
  /\ noDataWarnings = 1
  /\ Len(features) = 2 * (Len(Catalog) - 1)

\* C4: with region info and forecast resolved, a geometry string that is
\* invalid JSON, has no or empty layers, a first geometry whose type is not
\* Polygon, or no coordinates, raises nothing and gives a Point feature only.
MalformedGeometryGivesPointOnly ==
  LET g == regionInfo.geometry
      malformed ==
        /\ g.kind = "string"
        /\ \/ g.json.kind = "invalid"
           \/ /\ g.json.kind = "object"
              /\ \/ g.json.layers.kind = "undefined"
                 \/ g.json.layers.items = <<>>
                 \/ g.json.layers.items[1].geometry.type # "Polygon"
                 \/ g.json.layers.items[1].geometry.coordinates.kind
                      = "undefined"
      n == Len(features)
  IN (idx > 1 /\ regionInfo # Null /\ data # Null /\ malformed) =>
       /\ raised.at \in {"none", "submit"}
       /\ n >= 1
       /\ features[n].id = "avalanche-" \o ToString(regionId) \o "-center"
       /\ features[n].geometry.type = "Point"
       /\ \A i \in 1..n : features[i].id # "avalanche-" \o ToString(regionId)

MalformedGeometryGivesPointOnlyWitness ==
  /\ idx > 1 /\ regionInfo # Null /\ data # Null
  /\ regionInfo.geometry.kind = "string"
  /\ regionInfo.geometry.json.kind = "object"
  /\ regionInfo.geometry.json.layers.kind = "array"
  /\ Len(regionInfo.geometry.json.layers.items) = 1
  /\ regionInfo.geometry.json.layers.items[1].geometry.type = "Point"
  /\ features[Len(features)].geometry.type = "Point"
  /\ pc = "done"

\* C5: an error that escapes before the submit call (the configuration read)
\* leaves submit uncalled and nothing submitted, and control() throws that
\* same error.
FailureBeforeSubmitSubmitsNothing ==
  /\ (raised # NoError /\ raised.at # "submit") =>
       /\ submitCalls = 0
       /\ submitted = NotSubmitted
       /\ pc = "failed"
       /\ thrown = raised
  /\ thrown # NoError => thrown = raised

FailureBeforeSubmitSubmitsNothingWitness ==
  /\ pc = "failed"
  /\ raised = [at |-> "env", id |-> 2]
  /\ thrown = [at |-> "env", id |-> 2]

\* C6 as stated: a run sends at most one request to the forecast endpoint.
ForecastFetchedOnce ==
  Cardinality({i \in 1..Len(requests) :
                 requests[i].endpoint = "/api/forecast"}) <= 1

\* C6 as amended: a run sends one request to the forecast endpoint per region
\* processed (as many as region requests, to one and the same URL), and each
\* region is normalized against the response of its own request.
ForecastFetchedPerRegion ==
  LET forecastReqs == {i \in 1..Len(requests) :
                         requests[i].endpoint = "/api/forecast"}
      regionReqs == {i \in 1..Len(requests) :
                       requests[i].endpoint = "/api/region"}
  IN pc \in {"loop", "submit", "done", "failed"} =>
       /\ Cardinality(forecastReqs) = idx - 1
       /\ Cardinality(regionReqs) = idx - 1
       /\ \A i, j \in forecastReqs : requests[i] = requests[j]
       /\ \A i \in forecastReqs : requests[i - 1].id = Catalog[i \div 2]
       /\ idx > 1 => (data = Null <=> FirstMatch(fcResp, regionId) = Null
                                      \/ ~NewDate(FirstMatch(fcResp, regionId).created).valid)

ForecastFetchedPerRegionWitness ==
  /\ submitCalls = 1
  /\ Len(requests) = 2 * Len(Catalog)
  /\ requests[2].endpoint = "/api/forecast"
  /\ requests[4].endpoint = "/api/forecast"
  /\ Len(features) = Len(Catalog)

\* C7: the expiry of a normalized forecast is its created instant plus 48
\* hours when validPeriod is exactly "48hrs" and plus 24 hours otherwise, to
\* the millisecond.
ExpiryIsCreatedPlusValidity ==
  (pc = "returned" /\ data # Null) =>
    LET forecast == FirstMatch(fcResp, regionId)
        created == IF forecast.created.fmt = "null" THEN 0
                   ELSE forecast.created.ms
    IN /\ data.expires.fmt = "iso"
       /\ data.expires.ms =
            created + (IF forecast.validPeriod = "48hrs"
                       THEN 172800000 ELSE 86400000)

ExpiryIsCreatedPlusValidityWitness ==
  /\ pc = "returned"
  /\ data # Null
  /\ FirstMatch(fcResp, regionId).validPeriod = "48HRS"
  /\ FirstMatch(fcResp, regionId).created = [fmt |-> "isoShort", ms |-> 86400000]
  /\ data.expires = [fmt |-> "iso", ms |-> 172800000]

\* C8: the colour of a Polygon feature and the icon of a Point feature are
\* the table entry of the level for levels 0..5 and the level-0 entry for
\* any other level; no feature has an undefined stroke, fill or icon.
StyleLookupIsTotal ==
  LET n == Len(features)
      icon == IF data.level \in 0..5 THEN AVALANCHE_ICONS[data.level]
              ELSE AVALANCHE_ICONS[0]
      color == IF data.level \in 0..5 THEN AVALANCHE_COLORS[data.level]
               ELSE AVALANCHE_COLORS[0]
  IN /\ \A i \in 1..n :
          IF features[i].geometry.type = "Polygon"
          THEN /\ features[i].properties.stroke # UndefinedStr
               /\ features[i].properties.fill # UndefinedStr
               /\ features[i].properties.stroke
                    \in {AVALANCHE_COLORS[l] : l \in 0..5}
               /\ features[i].properties.fill = features[i].properties.stroke
          ELSE /\ features[i].properties.icon # UndefinedStr
               /\ features[i].properties.icon
                    \in {AVALANCHE_ICONS[l] : l \in 0..5}
     /\ (idx > 1 /\ regionInfo # Null /\ data # Null) =>
          /\ features[n].properties.icon = icon
          /\ (n > 1 /\ features[n - 1].id = PolygonId(regionId)) =>
               /\ features[n - 1].properties.stroke = color
               /\ features[n - 1].properties.fill = color

StyleLookupIsTotalWitness ==
  /\ idx > 1 /\ regionInfo # Null /\ data # Null
  /\ data.level = 6
  /\ Len(features) > 1
  /\ features[Len(features) - 1].id = PolygonId(regionId)
  /\ features[Len(features) - 1].properties.stroke = "rgb(128, 128, 128)"
  /\ features[Len(features)].properties.icon = AVALANCHE_ICONS[0]

\* C9: the first entry of the list whose regionId is the region decides:
\* level is the greatest positive band rating (0 without one), levelText the
\* label of that level, and the band description that of the first band at
\* the maximum, else of the first band rated -2, else "No rating available".
FirstEntryDecidesLevel ==
  (pc = "returned" /\ data # Null) =>
    LET forecast == FirstMatch(fcResp, regionId)
        bands == IF forecast.altitudeDanger.kind = "array"
                 THEN forecast.altitudeDanger.items ELSE <<>>
        positive == {bands[i].rating : i \in 1..Len(bands)} \cap (1..100)
        level == IF positive = {} THEN 0
                 ELSE CHOOSE m \in positive : \A x \in positive : x <= m
        first(r) == CHOOSE i \in 1..Len(bands) :
                      /\ bands[i].rating = r
                      /\ \A j \in 1..(i - 1) : bands[j].rating # r
        label == CASE level = 0 -> "No Rating"
                   [] level = 1 -> "Low (1)"
                   [] level = 2 -> "Moderate (2)"
                   [] level = 3 -> "Considerable (3)"
                   [] level = 4 -> "High (4)"
                   [] level = 5 -> "Extreme (5)"
                   [] OTHER -> "Level " \o ToString(level)
        bandDescription ==
          IF level > 0 THEN bands[first(level)].description
          ELSE IF \E i \in 1..Len(bands) : bands[i].rating = -2
               THEN bands[first(-2)].description
          ELSE "No rating available"
    IN /\ data.level = level
       /\ data.levelText = label
       /\ data.levelText # "Insufficient Snow"
       /\ ~Truthy(forecast.importantInformation) =>
            data.description = bandDescription
       /\ forecast.importantInformation = InfoHtml =>
            data.description = "Wind slab"

FirstEntryDecidesLevelWitness ==
  /\ pc = "returned"
  /\ data # Null
  /\ Len(fcResp.body.forecasts.items) = 2
  /\ \A i \in 1..2 : fcResp.body.forecasts.items[i].regionId = regionId
  /\ fcResp.body.forecasts.items[1].altitudeDanger.kind = "array"
  /\ Len(fcResp.body.forecasts.items[1].altitudeDanger.items) = 2
  /\ fcResp.body.forecasts.items[1].altitudeDanger.items[1].rating = 0
  /\ fcResp.body.forecasts.items[1].altitudeDanger.items[2].rating = -2
  /\ fcResp.body.forecasts.items[2].altitudeDanger.items[1].rating = 4
  /\ data.level = 0
  /\ data.levelText = "No Rating"
  /\ data.description = "band 2"

\* C10: every feature has a stale exactly 24 or 48 hours after its start and
\* a time equal to its start; an entry whose created does not parse makes
\* getForecastData return no data, so no feature carries a clock-derived
\* time; the Polygon and the Point of a region carry the same times.
StaleFollowsStart ==
  LET n == Len(features)
      forecast == FirstMatch(fcResp, regionId)
  IN /\ \A i \in 1..n :
          LET p == features[i].properties IN
          /\ p.start.fmt = "iso"
          /\ p.stale.fmt = "iso"
          /\ p.stale.ms - p.start.ms \in {86400000, 172800000}
          /\ p.time = p.start
          /\ features[i].geometry.type = "Polygon" =>
               /\ i < n
               /\ features[i + 1].geometry.type = "Point"
               /\ features[i + 1].properties.time = p.time
               /\ features[i + 1].properties.start = p.start
               /\ features[i + 1].properties.stale = p.stale
     /\ (idx > 1 /\ forecast # Null
           /\ forecast.created.fmt \in {"garbage", "nz", "undefined"}) =>
          /\ data = Null
          /\ \A i \in 1..n : features[i].id \notin {PolygonId(regionId),
                                                    PointId(regionId)}
     /\ (idx > 1 /\ regionInfo # Null /\ data # Null) =>
          /\ forecast.created.fmt \in {"iso", "isoShort"}
          /\ features[n].properties.start.ms = forecast.created.ms

StaleFollowsStartWitness ==
  /\ idx > Len(Catalog)
  /\ Len(features) >= 2
  /\ features[1].geometry.type = "Polygon"
  /\ features[2].properties.stale.ms = 172800001
  /\ regionInfo # Null
  /\ data = Null
  /\ FirstMatch(fcResp, regionId) # Null
  /\ FirstMatch(fcResp, regionId).created.fmt = "nz"

====
